---- MODULE Spec2Model ----
(***************************************************************************)
(* Model of the SchedulAI scheduling engine:                               *)
(*   - GoogleService._calculate_free_slots   (free intervals from busy)    *)
(*   - SchedulingAgent._analyze_optimal_slots / _calculate_slot_score      *)
(*   - SchedulingAgent.schedule_meeting / confirm_meeting (proposal store) *)
(*                                                                         *)
(* Time is counted in ticks of TickMinutes minutes from Monday 00:00.      *)
(***************************************************************************)
EXTENDS Integers, Sequences, FiniteSets, TLC

\* ---------------------------------------------------------------- bounds
MaxTime == 4          \* free-slot calculation: instants are 0..MaxTime
MaxBusy == 2          \* free-slot calculation: busy lists of length <= MaxBusy
MaxFree == 2          \* slot analysis: free lists of length <= MaxFree
MaxEvents == 2        \* gateway: at most MaxEvents calendar events are created

\* ------------------------------------------------------ datetime helpers
TickMinutes == 15
TicksPerHour == 60 \div TickMinutes
TicksPerDay == 24 * TicksPerHour

\* datetime.hour
Hour(t) == (t \div TicksPerHour) % 24

\* datetime.weekday(): Monday = 0 .. Sunday = 6
Weekday(t) == (t \div TicksPerDay) % 7

Max(a, b) == IF a >= b THEN a ELSE b

TimeSlot(s, e) == [start_time |-> s, end_time |-> e]

\* ------------------------------------------------ _calculate_free_slots
\* list.sort(key=start_time): a stable sort, as Python's is
RECURSIVE InsertByStart(_, _)
InsertByStart(sorted, x) ==
    IF sorted = <<>> THEN <<x>>
    ELSE IF x.start_time < Head(sorted).start_time THEN <<x>> \o sorted
    ELSE <<Head(sorted)>> \o InsertByStart(Tail(sorted), x)

RECURSIVE SortByStartFrom(_, _)
SortByStartFrom(sorted, rest) ==
    IF rest = <<>> THEN sorted
    ELSE SortByStartFrom(InsertByStart(sorted, Head(rest)), Tail(rest))

\* mutant: the busy list swept in the order given
SortByStartSkipped(seq) == seq

SortByStart(seq) == SortByStartFrom(<<>>, seq)

\* the sweep of the cursor current_time over the sorted busy slots
RECURSIVE Sweep(_, _, _)
Sweep(busy, current_time, free) ==
    IF busy = <<>> THEN [free |-> free, current_time |-> current_time]
    ELSE LET b == Head(busy)
             free2 == IF current_time < b.start_time
                      THEN Append(free, TimeSlot(current_time, b.start_time))
                      ELSE free
         IN Sweep(Tail(busy), Max(current_time, b.end_time), free2)

CalculateFreeSlots(start_date, end_date, busy_slots) ==
    LET swept == Sweep(SortByStart(busy_slots), start_date, <<>>)
    IN IF swept.current_time < end_date
       THEN Append(swept.free, TimeSlot(swept.current_time, end_date))
       ELSE swept.free

\* ------------------------------------------------ _calculate_slot_score
Priorities == {"low", "medium", "high", "urgent"}

\* mutant: the +10 ranges taken half-open, [9,12) and [13,16)
TimeOfDayBonusHalfOpen(hour) ==
    IF (10 <= hour /\ hour <= 11) \/ (14 <= hour /\ hour <= 15) THEN 20
    ELSE IF (9 <= hour /\ hour < 12) \/ (13 <= hour /\ hour < 16) THEN 10
    ELSE 0

TimeOfDayBonus(hour) ==
    IF (10 <= hour /\ hour <= 11) \/ (14 <= hour /\ hour <= 15) THEN 20
    ELSE IF (9 <= hour /\ hour <= 12) \/ (13 <= hour /\ hour <= 16) THEN 10
    ELSE 0

DayOfWeekBonus(day) ==
    IF 1 <= day /\ day <= 3 THEN 15
    ELSE IF day \in {0, 4} THEN 5
    ELSE 0

\* mutant: the high-priority adjustment without its weekday term
PriorityBonusNoWeekday(priority, hour, day) ==
    IF priority = "high"
    THEN (IF hour <= 12 THEN 10 ELSE 0)
    ELSE IF priority = "low"
    THEN day * 2 + (IF hour >= 14 THEN 5 ELSE 0)
    ELSE 0

PriorityBonus(priority, hour, day) ==
    IF priority = "high"
    THEN (7 - day) * 5 + (IF hour <= 12 THEN 10 ELSE 0)
    ELSE IF priority = "low"
    THEN day * 2 + (IF hour >= 14 THEN 5 ELSE 0)
    ELSE 0

CalculateSlotScore(slot_start, priority) ==
    100 + TimeOfDayBonus(Hour(slot_start))
        + DayOfWeekBonus(Weekday(slot_start))
        + PriorityBonus(priority, Hour(slot_start), Weekday(slot_start))

\* ----------------------------------------------- _analyze_optimal_slots
WorkStartHour == 9
WorkEndHour == 17
DefaultMaxSuggestions == 3

\* timedelta(minutes=duration_minutes)
Timedelta(duration_minutes) == duration_minutes \div TickMinutes

\* an entry of a participant's "free_slots" list, as _get_calendar_availability
\* builds it
FreeSlotEntry(s, e) ==
    [start_time |-> s, end_time |-> e, duration_minutes |-> (e - s) * TickMinutes]

\* mutant: the filter without the is_authenticated test
HasAvailabilityDataAnyone(participant) ==
    participant.free_slots # <<>>

\* the filter that builds authenticated_participants
HasAvailabilityData(participant) ==
    participant.is_authenticated /\ participant.free_slots # <<>>

\* "Check if slot is within work hours": slot_end is the end of the free slot
OutsideWorkHours(slot, work_start, work_end) ==
    Hour(slot.start_time) < work_start \/ Hour(slot.end_time) > work_end

\* participant_free for one other participant
ParticipantFree(other_participant, slot_start, duration_minutes) ==
    \E k \in 1..Len(other_participant.free_slots) :
        LET other_slot == other_participant.free_slots[k]
        IN slot_start >= other_slot.start_time
           /\ slot_start + Timedelta(duration_minutes) <= other_slot.end_time

WorksForAll(others, slot_start, duration_minutes) ==
    \A k \in 1..Len(others) : ParticipantFree(others[k], slot_start, duration_minutes)

CommonSlot(slot_start, duration_minutes, priority) ==
    [start_time |-> slot_start,
     end_time   |-> slot_start + Timedelta(duration_minutes),
     score      |-> CalculateSlotScore(slot_start, priority)]

\* the loop over base_participant["free_slots"]
RECURSIVE CommonSlots(_, _, _, _, _, _)
CommonSlots(free_slots, others, duration_minutes, priority, work_start, work_end) ==
    IF free_slots = <<>> THEN <<>>
    ELSE LET slot == Head(free_slots)
             rest == CommonSlots(Tail(free_slots), others, duration_minutes,
                                 priority, work_start, work_end)
         IN IF OutsideWorkHours(slot, work_start, work_end) THEN rest
            ELSE IF slot.duration_minutes < duration_minutes THEN rest
            ELSE IF WorksForAll(others, slot.start_time, duration_minutes)
                 THEN <<CommonSlot(slot.start_time, duration_minutes, priority)>> \o rest
                 ELSE rest

\* common_slots.sort(key=score, reverse=True): stable, equal scores keep
\* their order
RECURSIVE InsertByScore(_, _)
InsertByScore(sorted, x) ==
    IF sorted = <<>> THEN <<x>>
    ELSE IF x.score > Head(sorted).score THEN <<x>> \o sorted
    ELSE <<Head(sorted)>> \o InsertByScore(Tail(sorted), x)

RECURSIVE SortByScoreFrom(_, _)
SortByScoreFrom(sorted, rest) ==
    IF rest = <<>> THEN sorted
    ELSE SortByScoreFrom(InsertByScore(sorted, Head(rest)), Tail(rest))

SortByScoreSkipped(seq) == seq

SortByScoreDesc(seq) == SortByScoreFrom(<<>>, seq)

\* list[:n]
Take(seq, n) == SubSeq(seq, 1, IF Len(seq) < n THEN Len(seq) ELSE n)

AnalyzeOptimalSlots(availability_data, duration_minutes, priority, max_suggestions) ==
    LET authenticated_participants == SelectSeq(availability_data, HasAvailabilityData)
    IN IF authenticated_participants = <<>>
       THEN [success |-> FALSE, suggested_slots |-> <<>>, total_slots_found |-> 0]
       ELSE LET common_slots ==
                    SortByScoreDesc(CommonSlots(Head(authenticated_participants).free_slots,
                                                Tail(authenticated_participants),
                                                duration_minutes, priority,
                                                WorkStartHour, WorkEndHour))
            IN [success |-> TRUE,
                suggested_slots |-> Take(common_slots, max_suggestions),
                total_slots_found |-> Len(common_slots)]

\* ------------------------------------------- get_calendar_availability
\* GoogleService.get_calendar_availability for one participant: fetched.busy is
\* the busy list of the freebusy answer, ~fetched.ok an HttpError
AvailabilityResponse(email, start_date, end_date, fetched) ==
    IF ~fetched.ok
    THEN [participant_email |-> email, free_slots |-> <<>>, busy_slots |-> <<>>]
    ELSE [participant_email |-> email,
          free_slots |-> CalculateFreeSlots(start_date, end_date, fetched.busy),
          busy_slots |-> SortByStart(fetched.busy)]

\* auth_manager.validate_access(...)['accessible_users']
AccessibleUsers(participant_emails, authenticated_users) ==
    {participant_emails[k] : k \in 1..Len(participant_emails)} \cap authenticated_users

LongEnough(slot, duration_minutes) ==
    (slot.end_time - slot.start_time) * TickMinutes >= duration_minutes

RECURSIVE FreeSlotEntries(_, _)
FreeSlotEntries(free_slots, duration_minutes) ==
    IF free_slots = <<>> THEN <<>>
    ELSE LET slot == Head(free_slots)
             rest == FreeSlotEntries(Tail(free_slots), duration_minutes)
         IN IF LongEnough(slot, duration_minutes)
            THEN <<FreeSlotEntry(slot.start_time, slot.end_time)>> \o rest
            ELSE rest

\* SchedulingAgent._get_calendar_availability: the "availability_data" list
GetCalendarAvailability(participant_emails, start_date, end_date, duration_minutes, authenticated_users, fetch) ==
    [k \in 1..Len(participant_emails) |->
        LET email == participant_emails[k]
            response == AvailabilityResponse(email, start_date, end_date, fetch[email])
        IN [participant_email |-> email,
            is_authenticated |->
                email \in AccessibleUsers(participant_emails, authenticated_users),
            free_slots |-> FreeSlotEntries(response.free_slots, duration_minutes),
            busy_slots |-> response.busy_slots]]

\* the tool get_calendar_availability, "try: ... except Exception": raised are
\* the participants whose freebusy query raises something other than an
\* HttpError (a timeout, a transport or credentials error); it leaves
\* GoogleService.get_calendar_availability and the tool returns an error
GetCalendarAvailabilityTool(participant_emails, start_date, end_date, duration_minutes, authenticated_users, fetch, raised) ==
    IF \E k \in 1..Len(participant_emails) : participant_emails[k] \in raised
    THEN [success |-> FALSE, availability_data |-> <<>>]
    ELSE [success |-> TRUE,
          availability_data |->
              GetCalendarAvailability(participant_emails, start_date, end_date,
                                      duration_minutes, authenticated_users, fetch)]

\* ================================================================ state
VARIABLES
    rq,             \* one request to the schedule route
    av,             \* one call of _get_calendar_availability
    calc,           \* one call of _calculate_free_slots
    sc,             \* one call of _calculate_slot_score
    an,             \* one call of _analyze_optimal_slots
    proposals,      \* SchedulingAgent.proposals: proposal id -> MeetingProposal
    authenticated,  \* the users the authentication directory holds credentials for
    events,         \* the calendar events the Gateway has created
    conf,           \* per client: its confirm_meeting call in progress
    ret             \* the value the last schedule_meeting / confirm call returned

vars == <<rq, av, calc, sc, an, proposals, authenticated, events, conf, ret>>

CalcIdle == [pc |-> "idle", start_date |-> 0, end_date |-> 0,
             busy_slots |-> <<>>, free_slots |-> <<>>]
ScIdle == [pc |-> "idle", slot_start |-> 0, priority |-> "medium", score |-> 0]
AvIdle == [pc |-> "idle", participant_emails |-> <<>>, authenticated_users |-> {},
           fetch |-> <<>>, raised |-> {},
           result |-> [success |-> FALSE, availability_data |-> <<>>]]
RqIdle == [pc |-> "idle", title_length |-> 0, description_length |-> 0,
           duration_minutes |-> 0, organizer |-> "none", participants |-> <<>>,
           priority |-> "medium", outcome |-> "", agent_called |-> FALSE]
AnIdle == [pc |-> "idle", availability_data |-> <<>>, duration_minutes |-> 0,
           priority |-> "medium", max_suggestions |-> 0,
           result |-> [success |-> FALSE, suggested_slots |-> <<>>,
                       total_slots_found |-> 0]]

\* ======================================================= proposal store
Users == {"u1", "u2"}
Callers == {"c1", "c2"}
ProposalIds == {1, 2}
NoId == 0

\* the meeting the requests of this model ask for
Organizer == "u1"
ParticipantEmails == <<"u1", "u2">>
ScheduleHorizon == TimeSlot(36, 48)              \* Monday 09:00 - 12:00
ScheduleDuration == 30
SchedulePriority == "medium"

\* what the Gateway's freebusy query answers for one participant
FetchFailed == [ok |-> FALSE, busy |-> <<>>]
FetchChoices ==
    {[ok |-> TRUE,  busy |-> <<TimeSlot(40, 44)>>],
     [ok |-> TRUE,  busy |-> <<TimeSlot(44, 48), TimeSlot(36, 40)>>],
     FetchFailed}

\* what the Gateway's events().insert does
GatewayOutcomes == {"created", "HttpError", "error"}

\* slot indexes tried by confirm
SlotIndexChoices == {-3, -1, 0, 2}

\* the tool calls the planning agent's first answer asks for
PlannerPlans == {"no_tools", "analyze", "analyze_and_event"}

\* where a call of the planning agent raises: nowhere, the first call, or the
\* call for the final answer
AgentFaults == {"none", "first", "final"}

ConfIdle == [pc |-> "idle", proposal_id |-> NoId, slot_index |-> 0]
\* the "reasoning" text of a result: empty when analyze_optimal_slots was not
\* called, else what its text tells: whether any participant had availability
\* data ("Analyzed availability for ...") and how many slots were found
NoReasoning == [analysed |-> FALSE, with_data |-> FALSE, total_slots_found |-> 0]

Reasoning(analysis) ==
    [analysed |-> TRUE, with_data |-> analysis.success,
     total_slots_found |-> analysis.total_slots_found]

RetNone == [op |-> "none", success |-> TRUE, error |-> "", proposal_id |-> NoId,
            suggested_slots |-> <<>>, reasoning |-> NoReasoning]

Return(op, success, error, proposal_id, suggested_slots) ==
    [op |-> op, success |-> success, error |-> error, proposal_id |-> proposal_id,
     suggested_slots |-> suggested_slots, reasoning |-> NoReasoning]

RECURSIVE ToTimeSlots(_)
ToTimeSlots(suggested_slots) ==
    IF suggested_slots = <<>> THEN <<>>
    ELSE <<TimeSlot(Head(suggested_slots).start_time, Head(suggested_slots).end_time)>>
         \o ToTimeSlots(Tail(suggested_slots))

MeetingProposal(organizer, suggested_slots) ==
    [meeting_request |-> [organizer |-> organizer,
                          duration_minutes |-> ScheduleDuration,
                          priority |-> SchedulePriority],
     suggested_slots |-> ToTimeSlots(suggested_slots),
     status |-> "pending"]

InitStore ==
    /\ proposals = <<>>
    /\ authenticated \in SUBSET Users
    /\ events = <<>>
    /\ conf = [c \in Callers |-> ConfIdle]
    /\ ret = RetNone

\* the authentication directory gains or loses a user's credentials
AuthChange(u) ==
    /\ authenticated' = IF u \in authenticated THEN authenticated \ {u}
                        ELSE authenticated \cup {u}
    /\ UNCHANGED <<rq, av, calc, sc, an, proposals, events, conf, ret>>

\* list[index] with Python's negative indexes; the caller has checked
\* -Len <= index < Len
PyItem(list, index) ==
    IF index >= 0 THEN list[index + 1] ELSE list[Len(list) + index + 1]

CalendarEvent(proposal_id, start_time) ==
    [proposal_id |-> proposal_id, start_time |-> start_time]

\* _create_calendar_event + GoogleService.create_calendar_event: "created"
\* yields an event id, an HttpError is swallowed and yields the id None with
\* success, any other exception yields success False
CreateCalendarEvent(organizer_email, outcome) ==
    IF organizer_email \notin authenticated
    THEN [success |-> FALSE, created |-> FALSE,
          error |-> "Organizer not authenticated. Please authenticate first."]
    ELSE IF outcome = "created"
    THEN [success |-> TRUE, created |-> TRUE, error |-> ""]
    ELSE IF outcome = "HttpError"
    THEN [success |-> TRUE, created |-> FALSE, error |-> ""]
    ELSE [success |-> FALSE, created |-> FALSE, error |-> "Gateway error"]

\* the inputs of one schedule_meeting call, each combination that behaves
\* differently taken once: the freebusy answers matter only to a plan that
\* analyses, events().insert only to a plan that creates an event, a fault of
\* the first agent call leaves nothing else to choose, and the call for the
\* final answer is reached with every tool call of the plan already executed
ScheduleInputs ==
    {in \in [fetch : [Users -> FetchChoices], plan : PlannerPlans,
             fault : AgentFaults, outcome : GatewayOutcomes] :
        /\ in.plan = "no_tools" => in.fetch = [u \in Users |-> FetchFailed]
        /\ in.plan # "analyze_and_event" => in.outcome = "error"
        /\ in.fault = "first" => in.plan = "no_tools"
        /\ in.fault = "final" => in.plan = "analyze_and_event"}

\* the tool calls get_calendar_availability and analyze_optimal_slots of one
\* schedule_meeting call, by the authenticated users and the freebusy answers
ScheduleAnalysis ==
    {<<authenticated_users, fetch,
       AnalyzeOptimalSlots(
           GetCalendarAvailability(ParticipantEmails, ScheduleHorizon.start_time,
                                   ScheduleHorizon.end_time, ScheduleDuration,
                                   authenticated_users, fetch),
           ScheduleDuration, SchedulePriority, DefaultMaxSuggestions)>> :
        authenticated_users \in SUBSET Users, fetch \in [Users -> FetchChoices]}

AnalysisOf(authenticated_users, fetch) ==
    (CHOOSE row \in ScheduleAnalysis :
        row[1] = authenticated_users /\ row[2] = fetch)[3]

\* mutant: the proposal stored before the call for the final answer returned
StoresProposalDespiteFault(fault, suggested_slots) ==
    suggested_slots # <<>>

\* mutant: the proposal stored whether or not a slot was suggested
StoresProposalAlways(fault, suggested_slots) ==
    fault = "none"

\* "if suggested_slots:" after the final agent call returned
StoresProposal(fault, suggested_slots) ==
    fault = "none" /\ suggested_slots # <<>>

\* the routes are "async def" handlers that call the agent synchronously: the
\* event loop runs one request to its return before it starts the next
NoRequestRunning == \A c \in Callers : conf[c].pc = "idle"

\* schedule_meeting and _process_agent_response: id is the uuid drawn
ScheduleMeeting(id, in) ==
    /\ NoRequestRunning
    /\ id \notin DOMAIN proposals
    /\ in.outcome = "created" => Len(events) < MaxEvents
    /\ LET analysis == AnalysisOf(authenticated, in.fetch)
           suggested_slots ==
               IF in.plan \in {"analyze", "analyze_and_event"}
               THEN analysis.suggested_slots ELSE <<>>
           event_result == CreateCalendarEvent(Organizer, in.outcome)
       IN /\ events' = IF in.plan = "analyze_and_event" /\ event_result.created
                       THEN Append(events, CalendarEvent(id, ScheduleHorizon.start_time))
                       ELSE events
          /\ proposals' = IF StoresProposal(in.fault, suggested_slots)
                          THEN (id :> MeetingProposal(Organizer, suggested_slots))
                               @@ proposals
                          ELSE proposals
          /\ ret' = IF in.fault # "none"
                    THEN Return("schedule", FALSE, "Agent error", NoId, <<>>)
                    ELSE [Return("schedule", TRUE, "", id, suggested_slots)
                             EXCEPT !.reasoning =
                                 IF in.plan \in {"analyze", "analyze_and_event"}
                                 THEN Reasoning(analysis) ELSE NoReasoning]
    /\ UNCHANGED <<rq, av, calc, sc, an, authenticated, conf>>

\* the confirm route receives a request
ConfirmCall(c, id, slot_index) ==
    /\ NoRequestRunning
    /\ conf' = [conf EXCEPT ![c] = [pc |-> "check", proposal_id |-> id,
                                    slot_index |-> slot_index]]
    /\ UNCHANGED <<rq, av, calc, sc, an, proposals, authenticated, events, ret>>

\* the checks of confirm_meeting before it calls _create_calendar_event: the
\* error it returns, "" when it goes on ("IndexError" is raised, not returned)
ConfirmError(id, slot_index) ==
    IF id \notin DOMAIN proposals THEN "Proposal not found"
    ELSE IF slot_index >= Len(proposals[id].suggested_slots) THEN "Invalid slot index"
    ELSE IF slot_index < -Len(proposals[id].suggested_slots) THEN "IndexError"
    ELSE IF proposals[id].meeting_request.organizer \notin authenticated
         THEN "Organizer not authenticated. Cannot create calendar event."
    ELSE ""

\* confirm_meeting up to the call of _create_calendar_event
ConfirmCheck(c) ==
    /\ conf[c].pc = "check"
    /\ LET error == ConfirmError(conf[c].proposal_id, conf[c].slot_index)
       IN IF error = ""
          THEN /\ conf' = [conf EXCEPT ![c].pc = "create_event"]
               /\ ret' = ret
          ELSE /\ conf' = [conf EXCEPT ![c] = ConfIdle]
               /\ ret' = Return("confirm", FALSE, error, NoId, <<>>)
    /\ UNCHANGED <<rq, av, calc, sc, an, proposals, authenticated, events>>

\* mutant: the confirm transition ends in the reserved status
SetConfirmedCancelled(proposal) == [proposal EXCEPT !.status = "cancelled"]

\* mutant: confirm keeps only the status and drops the suggested slots
SetConfirmedTrimmed(proposal) ==
    [proposal EXCEPT !.status = "confirmed", !.suggested_slots = <<>>]

\* proposal.status = "confirmed"
SetConfirmed(proposal) == [proposal EXCEPT !.status = "confirmed"]

\* mutant: the status updated before event_result is tested
ProposalAfterEventUntested(proposal, event_result) ==
    SetConfirmed(proposal)

\* the proposal after "if event_result["success"]: ... else: ..."
ProposalAfterEvent(proposal, event_result) ==
    IF event_result.success THEN SetConfirmed(proposal) ELSE proposal

\* confirm_meeting from the call of _create_calendar_event on: the event, and
\* after a successful event_result the confirmation email, the status update
\* and the return
ConfirmCreateEvent(c, outcome) ==
    /\ conf[c].pc = "create_event"
    /\ outcome = "created" => Len(events) < MaxEvents
    /\ LET id == conf[c].proposal_id
           proposal == proposals[id]
           selected_slot == PyItem(proposal.suggested_slots, conf[c].slot_index)
           event_result == CreateCalendarEvent(proposal.meeting_request.organizer,
                                               outcome)
       IN /\ events' = IF event_result.created
                       THEN Append(events, CalendarEvent(id, selected_slot.start_time))
                       ELSE events
          /\ proposals' = [proposals EXCEPT
                              ![id] = ProposalAfterEvent(proposal, event_result)]
          /\ ret' = Return("confirm", event_result.success, event_result.error,
                           NoId, <<>>)
    /\ conf' = [conf EXCEPT ![c] = ConfIdle]
    /\ UNCHANGED <<rq, av, calc, sc, an, authenticated>>

\* the route get_proposal_status: reads the stored proposal
GetProposalStatus(id) ==
    /\ NoRequestRunning
    /\ ret' = IF id \in DOMAIN proposals
              THEN Return("get", TRUE, "", id, proposals[id].suggested_slots)
              ELSE Return("get", FALSE, "Proposal not found", NoId, <<>>)
    /\ UNCHANGED <<rq, av, calc, sc, an, proposals, authenticated, events, conf>>

\* the route check_email_responses and _check_email_responses: searches the
\* inbox for the proposal id, stored or not; found is whether the search
\* returned or raised
CheckEmailResponses(id, found) ==
    /\ NoRequestRunning
    /\ ret' = IF found
              THEN Return("check_email", TRUE, "", id, <<>>)
              ELSE Return("check_email", FALSE, "Gateway error", id, <<>>)
    /\ UNCHANGED <<rq, av, calc, sc, an, proposals, authenticated, events, conf>>

\* the operations, for the requests of callers on the proposal ids ids with the
\* slot indexes indexes
NextStore(callers, ids, indexes) ==
    \/ \E u \in Users : AuthChange(u)
    \/ \E id \in ids, in \in ScheduleInputs : ScheduleMeeting(id, in)
    \/ \E c \in callers, id \in ids, slot_index \in indexes :
          ConfirmCall(c, id, slot_index)
    \/ \E c \in callers : ConfirmCheck(c)
    \/ \E c \in callers, outcome \in GatewayOutcomes : ConfirmCreateEvent(c, outcome)
    \/ \E id \in ids : GetProposalStatus(id)
    \/ \E id \in ids, found \in BOOLEAN : CheckEmailResponses(id, found)

Init ==
    /\ calc = CalcIdle
    /\ sc = ScIdle
    /\ an = AnIdle
    /\ av = AvIdle
    /\ InitStore
    /\ rq = RqIdle

\* the requests of one client over two proposals, any slot index
Next == NextStore({"c1"}, ProposalIds, SlotIndexChoices)

Spec == Init /\ [][Next]_vars

\* the requests of two clients on one proposal, slot indexes from 0
NextRace == NextStore(Callers, {1}, {0, 1})

SpecRace == Init /\ [][NextRace]_vars

\* ============================================ one call of each function
\* the store as the function specifications leave it
StoreUnused ==
    /\ proposals = <<>>
    /\ authenticated = {}
    /\ events = <<>>
    /\ conf = [c \in Callers |-> ConfIdle]
    /\ ret = RetNone

SeqsUpTo(S, n) == UNION {[1..k -> S] : k \in 0..n}

\* --- _calculate_free_slots over every horizon and busy list within bounds
Instants == 0..MaxTime
BusyIntervals ==
    {slot \in [start_time : Instants, end_time : Instants] :
        slot.start_time <= slot.end_time}

InitFree ==
    /\ calc \in [pc : {"call"}, start_date : Instants, end_date : Instants,
                 busy_slots : SeqsUpTo(BusyIntervals, MaxBusy), free_slots : {<<>>}]
    /\ sc = ScIdle
    /\ an = AnIdle
    /\ av = AvIdle
    /\ StoreUnused
    /\ rq = RqIdle

\* busy_slots.sort(...) sorts the caller's list in place
CalcFree ==
    /\ calc.pc = "call"
    /\ calc' = [calc EXCEPT
                  !.pc = "done",
                  !.busy_slots = SortByStart(calc.busy_slots),
                  !.free_slots = CalculateFreeSlots(calc.start_date, calc.end_date,
                                                    calc.busy_slots)]
    /\ UNCHANGED <<rq, av, sc, an, proposals, authenticated, events, conf, ret>>

NextFree == CalcFree

SpecFree == InitFree /\ [][NextFree]_vars

\* --- _calculate_slot_score over every quarter hour of a week
WeekTicks == 0..(7 * TicksPerDay - 1)

InitScore ==
    /\ sc \in [pc : {"call"}, slot_start : WeekTicks, priority : Priorities,
               score : {0}]
    /\ calc = CalcIdle
    /\ an = AnIdle
    /\ av = AvIdle
    /\ StoreUnused
    /\ rq = RqIdle

CalcScore ==
    /\ sc.pc = "call"
    /\ sc' = [sc EXCEPT !.pc = "done",
                        !.score = CalculateSlotScore(sc.slot_start, sc.priority)]
    /\ UNCHANGED <<rq, av, calc, an, proposals, authenticated, events, conf, ret>>

NextScore == CalcScore

SpecScore == InitScore /\ [][NextScore]_vars

\* --- _analyze_optimal_slots over two participants
\* Mon 09:00-12:00, Mon 10:00-11:30, Tue 10:00-11:00, Wed 10:00-11:00,
\* Mon 08:00-10:00, Mon 16:00-18:00, Mon 15:30-17:45
FreePool ==
    {FreeSlotEntry(36, 48), FreeSlotEntry(40, 46), FreeSlotEntry(136, 140),
     FreeSlotEntry(232, 236), FreeSlotEntry(32, 40), FreeSlotEntry(64, 72),
     FreeSlotEntry(62, 71)}

\* the free intervals of one calendar do not overlap; the planner passes them
\* to the tool as JSON, in any order
Disjoint(x, y) == x.end_time <= y.start_time \/ y.end_time <= x.start_time

FreeLists ==
    {l \in SeqsUpTo(FreePool, MaxFree) :
        \A i \in 1..Len(l), j \in 1..Len(l) : i # j => Disjoint(l[i], l[j])}

ParticipantData(email) ==
    [participant_email : {email}, is_authenticated : BOOLEAN,
     free_slots : FreeLists, busy_slots : {<<>>}]

AnalysisPriorities == {"medium", "high"}
DurationChoices == {30, 120}
MaxSuggestionsChoices == {1, DefaultMaxSuggestions}

InitSlots ==
    /\ an \in [pc : {"call"},
               availability_data : {<<a, b>> : a \in ParticipantData("A"),
                                               b \in ParticipantData("B")},
               duration_minutes : DurationChoices,
               priority : AnalysisPriorities,
               max_suggestions : MaxSuggestionsChoices,
               result : {AnIdle.result}]
    /\ calc = CalcIdle
    /\ sc = ScIdle
    /\ av = AvIdle
    /\ StoreUnused
    /\ rq = RqIdle

Analyze ==
    /\ an.pc = "call"
    /\ an' = [an EXCEPT !.pc = "done",
                        !.result = AnalyzeOptimalSlots(an.availability_data,
                                                       an.duration_minutes,
                                                       an.priority,
                                                       an.max_suggestions)]
    /\ UNCHANGED <<rq, av, calc, sc, proposals, authenticated, events, conf, ret>>

NextSlots == Analyze

SpecSlots == InitSlots /\ [][NextSlots]_vars

\* --- _get_calendar_availability over lists of up to three participants
AvailParticipants == {"u1", "u2", "u3"}

\* participant lists without a repeated email, in any order
ParticipantLists ==
    {l \in SeqsUpTo(AvailParticipants, Cardinality(AvailParticipants)) :
        \A i \in 1..Len(l), j \in 1..Len(l) : i # j => l[i] # l[j]}

Listed(participant_emails) ==
    {participant_emails[k] : k \in 1..Len(participant_emails)}

InitAvail ==
    /\ av \in {a \in [pc : {"call"},
                      participant_emails : ParticipantLists,
                      authenticated_users : SUBSET AvailParticipants,
                      fetch : [AvailParticipants -> FetchChoices],
                      raised : SUBSET AvailParticipants,
                      result : {AvIdle.result}] :
                  /\ a.raised \subseteq Listed(a.participant_emails)
                  /\ \A u \in AvailParticipants \ Listed(a.participant_emails) :
                        a.fetch[u] = FetchFailed}
    /\ calc = CalcIdle
    /\ sc = ScIdle
    /\ an = AnIdle
    /\ StoreUnused
    /\ rq = RqIdle

Avail ==
    /\ av.pc = "call"
    /\ av' = [av EXCEPT
                 !.pc = "done",
                 !.result = GetCalendarAvailabilityTool(
                                av.participant_emails, ScheduleHorizon.start_time,
                                ScheduleHorizon.end_time, ScheduleDuration,
                                av.authenticated_users, av.fetch, av.raised)]
    /\ UNCHANGED <<rq, calc, sc, an, proposals, authenticated, events, conf, ret>>

NextAvail == Avail

SpecAvail == InitAvail /\ [][NextAvail]_vars

\* --- the schedule route: the request model's validation and the handler up
\* --- to the call of the agent
MinTitleLength == 1
MaxTitleLength == 200
MaxDescriptionLength == 1000
MinDuration == 15
MaxDuration == 480

\* a Dict[str, str] of the request, by the keys the handler looks for
PersonChoices == {"valid", "no_email"}

\* ScheduleMeetingRequest: the Field constraints and the priority validator;
\* organizer is optional and participants has default_factory=list and no
\* minimum length
ValidateRequest(request) ==
    /\ MinTitleLength <= request.title_length
    /\ request.title_length <= MaxTitleLength
    /\ request.description_length <= MaxDescriptionLength
    /\ MinDuration <= request.duration_minutes
    /\ request.duration_minutes <= MaxDuration
    /\ request.priority \in Priorities

\* the handler: 422 from the request model, 400 for an organizer or a
\* participant without name or email, else MeetingRequest is built from the
\* organizer (a default one when none is given) and the participants, and the
\* agent is called
RouteOutcome(request) ==
    IF ~ValidateRequest(request) THEN "ValidationError"
    ELSE IF request.organizer = "no_email" THEN "HTTP 400"
    ELSE IF \E i \in 1..Len(request.participants) : request.participants[i] = "no_email"
    THEN "HTTP 400"
    ELSE "delegated"

MaxParticipants == 2

InitRequest ==
    /\ rq \in [pc : {"call"},
               title_length : {0, MinTitleLength, MaxTitleLength + 1},
               description_length : {0, MaxDescriptionLength + 1},
               duration_minutes : {0, MinDuration - 1, MinDuration, ScheduleDuration,
                                   MaxDuration, MaxDuration + 1},
               organizer : {"none"} \cup PersonChoices,
               participants : SeqsUpTo(PersonChoices, MaxParticipants),
               priority : Priorities \cup {"asap"},
               outcome : {""},
               agent_called : {FALSE}]
    /\ calc = CalcIdle
    /\ sc = ScIdle
    /\ an = AnIdle
    /\ av = AvIdle
    /\ StoreUnused

ScheduleRoute ==
    /\ rq.pc = "call"
    /\ rq' = [rq EXCEPT !.pc = "done",
                        !.outcome = RouteOutcome(rq),
                        !.agent_called = (RouteOutcome(rq) = "delegated")]
    /\ UNCHANGED <<av, calc, sc, an, proposals, authenticated, events, conf, ret>>

NextRequest == ScheduleRoute

SpecRequest == InitRequest /\ [][NextRequest]_vars

\* =============================================================== claims
\* caller c's confirm call returns in this step
ConfirmReturns(c) ==
    /\ conf[c].pc \in {"check", "create_event"}
    /\ conf'[c].pc = "idle"

\* the call in progress of caller c is on a stored proposal of this status
CallOn(c, status) ==
    /\ conf[c].proposal_id \in DOMAIN proposals
    /\ proposals[conf[c].proposal_id].status = status

OrganizerOf(c) == proposals[conf[c].proposal_id].meeting_request.organizer

ValidIndex(c) ==
    /\ 0 <= conf[c].slot_index
    /\ conf[c].slot_index < Len(proposals[conf[c].proposal_id].suggested_slots)

\* C1: of the concurrent confirm calls on one proposal, made with a valid slot
\* index and an authenticated organizer, one succeeds: a call that returns once
\* the proposal is confirmed, and that the Gateway did not fail, returns "Already
\* confirmed" and writes neither the status nor a calendar event a second time.
C1_OneConfirmWins ==
    [][\A c \in Callers :
          (/\ ConfirmReturns(c)
           /\ CallOn(c, "confirmed")
           /\ ValidIndex(c)
           /\ OrganizerOf(c) \in authenticated
           /\ ret'.error # "Gateway error")
          => /\ ~ret'.success
             /\ ret'.error = "Already confirmed"
             /\ proposals' = proposals
             /\ events' = events]_vars

\* C2: a confirm call that finds its proposal already confirmed returns "Already
\* confirmed" at once, whatever its slot index, and changes neither the proposal
\* nor the calendar events that record the confirmed slot.
C2_ConfirmedStaysConfirmed ==
    [][\A c \in Callers :
          (conf[c].pc = "check" /\ conf'[c].pc # "check" /\ CallOn(c, "confirmed"))
          => /\ conf'[c].pc = "idle"
             /\ ret' = Return("confirm", FALSE, "Already confirmed", NoId, <<>>)
             /\ UNCHANGED <<proposals, events>>]_vars

\* C3: for a horizon with start < end, the free intervals and the busy intervals
\* clamped to the horizon tile the horizon: every instant of it lies in exactly
\* one free interval or in a busy one, never in both, and no free interval is
\* empty, out of order, or reaches outside the horizon.
Covers(slot, t) == slot.start_time <= t /\ t < slot.end_time

FreeCovering(t) == {k \in 1..Len(calc.free_slots) : Covers(calc.free_slots[k], t)}

BusyCovers(t) ==
    /\ calc.start_date <= t /\ t < calc.end_date
    /\ \E k \in 1..Len(calc.busy_slots) : Covers(calc.busy_slots[k], t)

FreeSortedNonEmpty ==
    /\ \A k \in 1..Len(calc.free_slots) :
          calc.free_slots[k].start_time < calc.free_slots[k].end_time
    /\ \A k \in 1..(Len(calc.free_slots) - 1) :
          calc.free_slots[k].end_time <= calc.free_slots[k + 1].start_time

C3_FreeAndBusyTileHorizon ==
    (calc.pc = "done" /\ calc.start_date < calc.end_date)
    => /\ FreeSortedNonEmpty
       /\ \A t \in -1..MaxTime :
             IF calc.start_date <= t /\ t < calc.end_date
             THEN IF BusyCovers(t) THEN FreeCovering(t) = {}
                  ELSE Cardinality(FreeCovering(t)) = 1
             ELSE FreeCovering(t) = {}

\* C4: every slot the analysis returns lies inside some free interval of every
\* authenticated participant of the availability input, also of one that has no
\* free interval at all.
ContainedInFreeOf(slot, participant) ==
    \E k \in 1..Len(participant.free_slots) :
        /\ participant.free_slots[k].start_time <= slot.start_time
        /\ slot.end_time <= participant.free_slots[k].end_time

C4_SlotsInsideEveryAuthenticated ==
    an.pc = "done"
    => \A i \in 1..Len(an.result.suggested_slots),
          k \in 1..Len(an.availability_data) :
          an.availability_data[k].is_authenticated
          => ContainedInFreeOf(an.result.suggested_slots[i], an.availability_data[k])

\* C5: a confirm call on a pending proposal with a slot index below 0 or not
\* below the number of suggested slots returns "Invalid slot index", creates no
\* calendar event and leaves the proposal pending.
C5_InvalidIndexRejected ==
    [][(ConfirmReturns("c1") /\ CallOn("c1", "pending") /\ ~ValidIndex("c1"))
          => /\ ret' = Return("confirm", FALSE, "Invalid slot index", NoId, <<>>)
             /\ events' = events
             /\ proposals' = proposals]_vars

\* C6: a confirm call on a pending proposal, with an index the check accepts,
\* whose organizer is not authenticated when the call is checked returns the
\* organizer-not-authenticated error; and a confirm call that returns a failure,
\* whatever the cause, changes no stored proposal.
AcceptedIndex(c) ==
    /\ -Len(proposals[conf[c].proposal_id].suggested_slots) <= conf[c].slot_index
    /\ conf[c].slot_index < Len(proposals[conf[c].proposal_id].suggested_slots)

C7_RankedByScoreThenStart ==
    an.pc = "done"
    => \A i \in 1..Len(an.result.suggested_slots),
          j \in 1..Len(an.result.suggested_slots) :
          i < j => LET a == an.result.suggested_slots[i]
                       b == an.result.suggested_slots[j]
                   IN \/ a.score > b.score
                      \/ a.score = b.score /\ a.start_time <= b.start_time

\* C8: the score is the stated policy: base 100; +20 for the hours 10, 11, 14,
\* 15, else +10 for the hours of [9,12) and [13,16); +15 for Tuesday to Thursday,
\* +5 for Monday and Friday; high adds (7 - day) * 5 and 10 more up to hour 12;
\* low adds day * 2 and 5 more from hour 14; medium and urgent add nothing.
PolicyScore(hour, day, priority, plus_ten_hours) ==
    100
    + (IF hour \in {10, 11, 14, 15} THEN 20
       ELSE IF hour \in plus_ten_hours THEN 10 ELSE 0)
    + (IF day \in {1, 2, 3} THEN 15 ELSE IF day \in {0, 4} THEN 5 ELSE 0)
    + (CASE priority = "high" -> (7 - day) * 5 + (IF hour <= 12 THEN 10 ELSE 0)
         [] priority = "low" -> day * 2 + (IF hour >= 14 THEN 5 ELSE 0)
         [] OTHER -> 0)

C8_ScoreIsStatedPolicy ==
    sc.pc = "done"
    => sc.score = PolicyScore(Hour(sc.slot_start), Weekday(sc.slot_start),
                              sc.priority, (9..11) \cup (13..15))

\* C8 as amended: the same policy with +10 for the hours 9, 12, 13 and 16, the
\* closed ranges [9,12] and [13,16] less the +20 hours.
C8_ScoreIsAmendedPolicy ==
    sc.pc = "done"
    => sc.score = PolicyScore(Hour(sc.slot_start), Weekday(sc.slot_start),
                              sc.priority, (9..12) \cup (13..16))

C8_Witness ==
    /\ sc.pc = "done"
    /\ Hour(sc.slot_start) = 12
    /\ Weekday(sc.slot_start) = 2
    /\ sc.priority = "high"
    /\ sc.score = 160

\* C9: with A free Monday 09:00-12:00 and B free Monday 10:00-11:30, both
\* authenticated, 30 minutes and work hours 9-17, the returned slots include
\* 10:00-10:30, 10:30-11:00 and 11:00-11:30 and none starts before 10:00 or
\* after 11:00, whichever of the two is listed first.
ScenarioB ==
    /\ an.duration_minutes = 30
    /\ an.max_suggestions = DefaultMaxSuggestions
    /\ \A k \in 1..2 : an.availability_data[k].is_authenticated
    /\ {an.availability_data[k].free_slots : k \in 1..2}
          = {<<FreeSlotEntry(36, 48)>>, <<FreeSlotEntry(40, 46)>>}

ReturnedIntervals ==
    {TimeSlot(an.result.suggested_slots[i].start_time,
              an.result.suggested_slots[i].end_time) :
        i \in 1..Len(an.result.suggested_slots)}

C9_ScenarioBSlots ==
    (an.pc = "done" /\ ScenarioB)
    => /\ {TimeSlot(40, 42), TimeSlot(42, 44), TimeSlot(44, 46)} \subseteq ReturnedIntervals
       /\ \A slot \in ReturnedIntervals : 40 <= slot.start_time /\ slot.start_time <= 44

\* C10: a schedule_meeting call made when none of the requested participants is
\* authenticated inserts no proposal and, unless the planning agent itself
\* fails, returns success with an empty list of suggested slots.
ScheduleReturns ==
    /\ ret'.op = "schedule"
    /\ <<proposals, events, ret>>' # <<proposals, events, ret>>

C11_NoCommonSlotIsSuccess ==
    [][(/\ ScheduleReturns
        /\ ret'.reasoning.analysed
        /\ ret'.reasoning.with_data
        /\ ret'.reasoning.total_slots_found = 0)
          => /\ ret'.success
             /\ ret'.error = ""
             /\ ret'.suggested_slots = <<>>
             /\ proposals' = proposals]_vars

C11_Witness ==
    /\ ret.op = "schedule"
    /\ ret.success
    /\ ret.reasoning.analysed /\ ret.reasoning.with_data
    /\ ret.reasoning.total_slots_found = 0
    /\ ret.suggested_slots = <<>>
    /\ ret.proposal_id \in ProposalIds \ DOMAIN proposals
    /\ authenticated # {}

\* C12: every stored proposal is pending or confirmed; a proposal enters the
\* store pending, the only change of status is pending to confirmed, a confirmed
\* proposal stays confirmed, and cancelled is never reached.
C12_StatusLifecycle ==
    [][/\ \A id \in DOMAIN proposals' :
             /\ proposals'[id].status \in {"pending", "confirmed"}
             /\ id \notin DOMAIN proposals => proposals'[id].status = "pending"
       /\ \A id \in DOMAIN proposals :
             /\ id \in DOMAIN proposals'
             /\ proposals'[id].status # proposals[id].status
                   => /\ proposals[id].status = "pending"
                      /\ proposals'[id].status = "confirmed"]_vars

C12_Witness ==
    /\ ret.op = "confirm" /\ ret.success
    /\ \E id \in DOMAIN proposals : proposals[id].status = "confirmed"
    /\ \E id \in DOMAIN proposals : proposals[id].status = "pending"

\* C13: a stored proposal records a confirmed slot index exactly when its
\* status is confirmed.
ConfirmedSlotIndexes(proposal) ==
    IF "confirmed_slot_index" \in DOMAIN proposal
    THEN {proposal["confirmed_slot_index"]} ELSE {}

C13_ConfirmedSlotRecorded ==
    \A id \in DOMAIN proposals :
        proposals[id].status = "confirmed" <=> ConfirmedSlotIndexes(proposals[id]) # {}

\* C14: no operation removes a stored proposal or changes its meeting request
\* or its suggested slots; a successful confirm changes the status only.
C14_ProposalFrame ==
    [][\A id \in DOMAIN proposals :
          /\ id \in DOMAIN proposals'
          /\ proposals'[id].meeting_request = proposals[id].meeting_request
          /\ proposals'[id].suggested_slots = proposals[id].suggested_slots
          /\ DOMAIN proposals'[id] = DOMAIN proposals[id]]_vars

C14_Witness ==
    /\ ret.op \in {"get", "check_email"}
    /\ DOMAIN proposals = ProposalIds
    /\ \E id \in DOMAIN proposals :
          /\ proposals[id].status = "confirmed"
          /\ Len(proposals[id].suggested_slots) = 2
    /\ Len(events) > 0

\* C15: for a horizon with start < end and any busy list, also one with
\* intervals that begin before the horizon, end after it or lie outside it,
\* every free interval lies within the horizon and is not empty, and an instant
\* of the horizon is in a free interval exactly when no busy interval covers it.
C15_FreeWithinHorizon ==
    (calc.pc = "done" /\ calc.start_date < calc.end_date)
    => /\ \A k \in 1..Len(calc.free_slots) :
             /\ calc.start_date <= calc.free_slots[k].start_time
             /\ calc.free_slots[k].start_time < calc.free_slots[k].end_time
             /\ calc.free_slots[k].end_time <= calc.end_date
       /\ \A t \in calc.start_date..(calc.end_date - 1) :
             FreeCovering(t) # {} <=> ~BusyCovers(t)

\* C16: a call with a horizon whose start is not before its end does not
\* return a list of free intervals.
C16_InvalidRangeFails ==
    ~(calc.pc = "done" /\ calc.start_date >= calc.end_date)

\* C17: for a fixed horizon every permutation of the busy list gives the same
\* sequence of free intervals, and that sequence is ordered by start.
SeqPermutations(seq) ==
    {[k \in 1..Len(seq) |-> seq[q[k]]] :
        q \in {f \in [1..Len(seq) -> 1..Len(seq)] :
                  \A i, j \in 1..Len(seq) : f[i] = f[j] => i = j}}

C17_BusyOrderIrrelevant ==
    calc.pc = "done"
    => /\ \A busy \in SeqPermutations(calc.busy_slots) :
             CalculateFreeSlots(calc.start_date, calc.end_date, busy) = calc.free_slots
       /\ \A k \in 1..(Len(calc.free_slots) - 1) :
             calc.free_slots[k].start_time <= calc.free_slots[k + 1].start_time

C17_Witness ==
    /\ calc.pc = "done"
    /\ Len(calc.busy_slots) = 2
    /\ calc.busy_slots[1].start_time = calc.busy_slots[2].start_time
    /\ calc.busy_slots[1].end_time > calc.busy_slots[2].end_time
    /\ Len(calc.free_slots) = 2

\* C18: a participant of the availability query who is not authenticated
\* appears in the result with is_authenticated false and with empty free and
\* busy lists, as the answer of a freebusy query that was never issued.
Denied(k) == av.participant_emails[k] \notin av.authenticated_users

C18_DeniedNeverQueried ==
    (av.pc = "done" /\ av.result.success)
    => \A k \in 1..Len(av.result.availability_data) :
          Denied(k)
          => /\ ~av.result.availability_data[k].is_authenticated
             /\ av.result.availability_data[k].free_slots = <<>>
             /\ av.result.availability_data[k].busy_slots = <<>>

\* C19: the availability result has one entry per requested participant, in
\* the order of the request, whichever fetches succeed or fail.
C19_OneEntryPerParticipant ==
    av.pc = "done"
    => /\ Len(av.result.availability_data) = Len(av.participant_emails)
       /\ \A k \in 1..Len(av.participant_emails) :
             av.result.availability_data[k].participant_email = av.participant_emails[k]

\* C20: when the fetch of exactly one participant fails, by an HttpError or by
\* any other error, the query still succeeds, that participant's entry has
\* is_authenticated false and empty lists, and every other entry is what it is
\* when that fetch succeeds.
FailedFetches ==
    {k \in 1..Len(av.participant_emails) :
        \/ ~av.fetch[av.participant_emails[k]].ok
        \/ av.participant_emails[k] \in av.raised}

WithoutFailure(k) ==
    GetCalendarAvailability(
        av.participant_emails, ScheduleHorizon.start_time, ScheduleHorizon.end_time,
        ScheduleDuration, av.authenticated_users,
        [av.fetch EXCEPT ![av.participant_emails[k]] = [ok |-> TRUE, busy |-> <<>>]])

C20_FetchFailureIsolated ==
    (av.pc = "done" /\ Cardinality(FailedFetches) = 1)
    => \A k \in FailedFetches :
          /\ av.result.success
          /\ Len(av.result.availability_data) = Len(av.participant_emails)
          /\ ~av.result.availability_data[k].is_authenticated
          /\ av.result.availability_data[k].free_slots = <<>>
          /\ av.result.availability_data[k].busy_slots = <<>>
          /\ \A j \in 1..Len(av.participant_emails) :
                j # k => av.result.availability_data[j] = WithoutFailure(k)[j]

\* C21: the analysis returns what it returns for the participants with
\* is_authenticated true alone, in their order: the free and busy data and the
\* list position of a participant with is_authenticated false change neither
\* the slots nor the scores.
IsAuthenticated(participant) == participant.is_authenticated

C21_DeniedNeverCounts ==
    an.pc = "done"
    => an.result = AnalyzeOptimalSlots(SelectSeq(an.availability_data, IsAuthenticated),
                                       an.duration_minutes, an.priority,
                                       an.max_suggestions)

C21_Witness ==
    /\ an.pc = "done"
    /\ ~an.availability_data[1].is_authenticated
    /\ an.availability_data[1].free_slots # <<>>
    /\ an.availability_data[2].is_authenticated
    /\ an.result.suggested_slots # <<>>
    /\ \A i \in 1..Len(an.result.suggested_slots) :
          ~ContainedInFreeOf(an.result.suggested_slots[i], an.availability_data[1])

\* C22: when one participant alone has availability data and no slot is cut off
\* by max_suggestions, each free interval I of that driver at least as long as
\* the duration D yields the slot [I.start, I.start + D) unless the start hour
\* of the slot is before the work start or the hour of the meeting end
\* I.start + D is after the work end, and is rejected in exactly that case.
WithData == SelectSeq(an.availability_data, HasAvailabilityData)

MeetingOutsideWorkHours(slot_start, duration_minutes) ==
    \/ Hour(slot_start) < WorkStartHour
    \/ Hour(slot_start + Timedelta(duration_minutes)) > WorkEndHour

C22_WorkHoursOfMeeting ==
    (/\ an.pc = "done"
     /\ Len(WithData) = 1
     /\ Len(WithData[1].free_slots) <= an.max_suggestions)
    => \A k \in 1..Len(WithData[1].free_slots) :
          LET I == WithData[1].free_slots[k]
          IN I.duration_minutes >= an.duration_minutes
             => (TimeSlot(I.start_time, I.start_time + Timedelta(an.duration_minutes))
                     \in ReturnedIntervals
                 <=> ~MeetingOutsideWorkHours(I.start_time, an.duration_minutes))

\* C25: with priority high and the two candidates Tuesday 10:00 and Wednesday
\* 10:00, the Tuesday slot scores strictly higher and is ranked first.
Tuesday10 == 1 * TicksPerDay + 10 * TicksPerHour
Wednesday10 == 2 * TicksPerDay + 10 * TicksPerHour

ScenarioC ==
    /\ an.pc = "done"
    /\ an.priority = "high"
    /\ Len(WithData) > 0
    /\ {WithData[1].free_slots[k].start_time : k \in 1..Len(WithData[1].free_slots)}
           = {Tuesday10, Wednesday10}
    /\ an.result.total_slots_found = 2

C25_TuesdayBeforeWednesday ==
    ScenarioC
    => LET slots == an.result.suggested_slots
       IN /\ slots[1].start_time = Tuesday10
          /\ slots[1].score > CalculateSlotScore(Wednesday10, "high")
          /\ Len(slots) > 1
             => /\ slots[2].start_time = Wednesday10
                /\ slots[2].score = CalculateSlotScore(Wednesday10, "high")

C25_Witness ==
    /\ ScenarioC
    /\ WithData[1].free_slots[1].start_time = Wednesday10
    /\ Len(an.result.suggested_slots) = 2
    /\ an.result.suggested_slots[1].start_time = Tuesday10
    /\ an.result.suggested_slots[1].score = 175
    /\ an.result.suggested_slots[2].score = 170

TickOfDay(t) == t % TicksPerDay

\* C26: for priority high and a fixed time of day, a slot on an earlier weekday
\* scores strictly higher than the slot at the same time on any later weekday.
SameTimeOn(slot_start, day) == day * TicksPerDay + TickOfDay(slot_start)

LaterWeekdays(slot_start) == (Weekday(slot_start) + 1)..6

C26_EarlierWeekdayHigher ==
    (sc.pc = "done" /\ sc.priority = "high")
    => \A day \in LaterWeekdays(sc.slot_start) :
          sc.score > CalculateSlotScore(SameTimeOn(sc.slot_start, day), "high")

\* C26 as amended: strictly higher for every pair of weekdays from Tuesday to
\* Sunday; Monday scores 5 below Tuesday, the same as Wednesday, and strictly
\* higher than Thursday to Sunday.
C26_EarlierWeekdayHigherFromTuesday ==
    (sc.pc = "done" /\ sc.priority = "high")
    => \A day \in LaterWeekdays(sc.slot_start) :
          LET later == CalculateSlotScore(SameTimeOn(sc.slot_start, day), "high")
          IN IF Weekday(sc.slot_start) = 0 /\ day = 1 THEN sc.score = later - 5
             ELSE IF Weekday(sc.slot_start) = 0 /\ day = 2 THEN sc.score = later
             ELSE sc.score > later

C26_Witness ==
    /\ sc.pc = "done"
    /\ sc.priority = "high"
    /\ Weekday(sc.slot_start) = 0
    /\ Hour(sc.slot_start) = 10
    /\ sc.score = 170
    /\ CalculateSlotScore(SameTimeOn(sc.slot_start, 1), "high") = 175
    /\ CalculateSlotScore(SameTimeOn(sc.slot_start, 3), "high") = 165

\* C23: a proposal enters the store only from a schedule_meeting call whose
\* analysis was completed and that returns success: whole, pending, under an id
\* that no stored proposal has, with the ranked slots the call returns; a
\* schedule_meeting call that fails leaves the store as it was.
RankedAnalyses ==
    {AnalysisOf(authenticated, fetch).suggested_slots : fetch \in [Users -> FetchChoices]}

C23_ProposalStoredWhole ==
    [][/\ \A id \in DOMAIN proposals :
             id \in DOMAIN proposals' /\ DOMAIN proposals'[id] = DOMAIN proposals[id]
       /\ \A id \in DOMAIN proposals' \ DOMAIN proposals :
             /\ DOMAIN proposals' = DOMAIN proposals \cup {id}
             /\ ret'.op = "schedule"
             /\ ret'.success
             /\ ret'.proposal_id = id
             /\ ret'.reasoning.analysed
             /\ ret'.suggested_slots \in RankedAnalyses \ {<<>>}
             /\ proposals'[id] = MeetingProposal(Organizer, ret'.suggested_slots)
             /\ proposals'[id].status = "pending"
       /\ (ScheduleReturns /\ ~ret'.success) => proposals' = proposals]_vars

C23_Witness ==
    /\ ret.op = "schedule"
    /\ ret.success
    /\ DOMAIN proposals = ProposalIds
    /\ proposals[ret.proposal_id].status = "pending"
    /\ proposals[ret.proposal_id].suggested_slots = ToTimeSlots(ret.suggested_slots)
    /\ Len(ret.suggested_slots) > 0
    /\ \E id \in DOMAIN proposals : proposals[id].status = "confirmed"

\* C27: when schedule_meeting returns success with a proposal id, a pending
\* proposal with that id is in the store.
C27_ReturnedIdIsStored ==
    [][(ScheduleReturns /\ ret'.success /\ ret'.proposal_id # NoId)
          => /\ ret'.proposal_id \in DOMAIN proposals'
             /\ proposals'[ret'.proposal_id].status = "pending"]_vars

\* C28: a confirm call on a pending proposal, with a valid slot index, sets the
\* status confirmed and reports success only if the Gateway created the event; when it did not, the
\* call returns an error and the proposal stays pending.
CreatesEvent == Len(events') = Len(events) + 1

C28_ConfirmedOnlyWithEvent ==
    [][\A c \in Callers :
          (/\ ConfirmReturns(c)
           /\ conf[c].pc = "create_event"
           /\ CallOn(c, "pending")
           /\ ValidIndex(c)
           /\ ~CreatesEvent)
             => /\ ~ret'.success
                /\ ret'.error # ""
                /\ proposals' = proposals]_vars

\* C29: a calendar event is created only inside a confirm call that passed its
\* precondition checks, never while schedule_meeting runs.
C29_EventOnlyInConfirm ==
    [][events' # events
          => \E c \in Callers : ConfirmReturns(c) /\ conf[c].pc = "create_event"]_vars

\* C24: a schedule request with no participant, or with a duration outside
\* 15..480 minutes, is rejected with a validation error and the agent is not
\* called.
C24_EmptyOrBadDurationRejected ==
    (/\ rq.pc = "done"
     /\ \/ rq.participants = <<>>
        \/ rq.duration_minutes < MinDuration
        \/ rq.duration_minutes > MaxDuration)
    => /\ rq.outcome = "ValidationError"
       /\ ~rq.agent_called

\* C30: every slot the analysis returns starts at or after the work start and
\* ends, at start + duration, at or before the work end of the same day.
C30_SlotsInsideWorkHours ==
    an.pc = "done"
    => \A i \in 1..Len(an.result.suggested_slots) :
          LET slot == an.result.suggested_slots[i]
          IN /\ TickOfDay(slot.start_time) >= WorkStartHour * TicksPerHour
             /\ TickOfDay(slot.start_time) + (slot.end_time - slot.start_time)
                    <= WorkEndHour * TicksPerHour

====
